---- MODULE Spec2Model ----
(***************************************************************************)
(* The tool functions of the Math MCP server, in its two revisions:        *)
(*   "plain"   : src/main.py                                               *)
(*   "logging" : src/src/main.py (every tool logs its call first; add is   *)
(*               a coroutine that awaits ctx.info before returning)        *)
(*                                                                         *)
(* A Call_<tool> action receives the arguments and runs the tool's body,   *)
(* the loops of is_prime, prime_factors and fibonacci advance one          *)
(* iteration per step, and Respond hands the outcome back and makes the    *)
(* invocation slot idle again.  Under Spec one invocation is in progress   *)
(* at a time.  Under ConcSpec the server has two invocations in flight:    *)
(* the variables pc .. steps are the frame of the one that is running and  *)
(* `other` is the frame of the one that is waiting; the logger is shared.  *)
(* Under EquivSpec the two revisions run side by side on the same          *)
(* requests: `other` is then the whole server of the other revision.       *)
(*                                                                         *)
(* Numbers.  A float argument is a rational <<p, q>> in lowest terms with  *)
(* q > 0.  A real result that involves a square root is a quadratic surd   *)
(* [u, v, d, w] standing for (u + v*sqrt(d)) / w.  A power with a          *)
(* fractional exponent is exact when an exact rational root exists and     *)
(* symbolic otherwise.  Arithmetic is exact: rounding of the IEEE doubles  *)
(* is not modelled.                                                        *)
(***************************************************************************)
EXTENDS Integers, Sequences, FiniteSets, TLC

VARIABLES revision, pc, op, args, result, locals, steps, lastLog, other

vars == <<revision, pc, op, args, result, locals, steps, lastLog, other>>

(***************************************************************************)
(* Bounds of the model.                                                    *)
(***************************************************************************)
\* float arguments have numerators in -MaxNum..MaxNum
MaxNum == 3
\* and denominators in 1..MaxDen
MaxDen == 2
\* integer arguments of the number theory tools are in -2..MaxInt
MaxInt == 26
\* radicands of nth_root are the integers -MaxRad..MaxRad
MaxRad == 8
\* root degrees of nth_root are -MaxDeg..MaxDeg
MaxDeg == 3
\* lists of numbers have at most MaxLen elements
MaxLen == 3
\* n and r of combinations and permutations are in -1..MaxComb
MaxComb == 5

(***************************************************************************)
(* Integer helpers.                                                        *)
(***************************************************************************)
Abs(x) == IF x < 0 THEN -x ELSE x

Sign(x) == IF x < 0 THEN -1 ELSE IF x > 0 THEN 1 ELSE 0

Max2(x, y) == IF x < y THEN y ELSE x

RECURSIVE Gcd(_, _)
\* math.gcd: the non-negative greatest common divisor, gcd(0, 0) = 0
Gcd(x, y) == IF y = 0 THEN Abs(x) ELSE Gcd(y, Abs(x) % Abs(y))

RECURSIVE IPow(_, _)
\* b ** k for integers b and k >= 0
IPow(b, k) == IF k = 0 THEN 1 ELSE b * IPow(b, k - 1)

\* x // y for y # 0, Python's floor division
FloorDiv(x, y) == IF y > 0 THEN x \div y ELSE (-x) \div (-y)

\* int(math.sqrt(n)) for n >= 0: the integer part of the square root
isqrt(n) == CHOOSE r \in 0..n : r * r <= n /\ (r + 1) * (r + 1) > n

\* whether the integer m >= 0 is a perfect k-th power
HasIRoot(m, k) == \E r \in 0..m : IPow(r, k) = m

IRoot(m, k) == CHOOSE r \in 0..m : IPow(r, k) = m

(***************************************************************************)
(* Rationals <<p, q>>: the float arguments and the exact float results.    *)
(***************************************************************************)
Rat(p, q) ==
    LET g == Gcd(p, q)
        s == IF q < 0 THEN -1 ELSE 1
    IN  <<(s * p) \div g, (s * q) \div g>>

RatAdd(x, y) == Rat(x[1] * y[2] + y[1] * x[2], x[2] * y[2])

RatNeg(x) == <<-x[1], x[2]>>

RatSub(x, y) == RatAdd(x, RatNeg(y))

RatMul(x, y) == Rat(x[1] * y[1], x[2] * y[2])

\* x / y for y # 0
RatDiv(x, y) == Rat(x[1] * y[2], x[2] * y[1])

RatIsZero(x) == x[1] = 0

RatLess(x, y) == x[1] * y[2] < y[1] * x[2]

RatIsInt(x) == x[2] = 1

\* the float arguments the model draws from
Floats == { Rat(p, q) : p \in -MaxNum..MaxNum, q \in 1..MaxDen }

(***************************************************************************)
(* Outcomes of an invocation.                                              *)
(***************************************************************************)
NoResult == [kind |-> "none", type |-> "none", val |-> "none"]

\* a returned value of the given runtime type
Ok(t, v) == [kind |-> "ok", type |-> t, val |-> v]

\* an exception of class t with message m, raised out of the tool
Raise(t, m) == [kind |-> "error", type |-> t, val |-> m]

NoLocals == [none |-> TRUE]

NoLog == <<>>

\* no second invocation in flight
NoOther == [kind |-> "none"]

\* the frame of an invocation that has not been called yet
IdleFrame ==
    [kind |-> "invocation", pc |-> "idle", op |-> "none", args |-> <<>>,
     result |-> NoResult, locals |-> NoLocals, steps |-> 0]

\* a second server, of revision rev, before any call
IdleServer(rev) ==
    [kind |-> "server", revision |-> rev, pc |-> "idle", op |-> "none",
     args |-> <<>>, result |-> NoResult, locals |-> NoLocals, steps |-> 0,
     lastLog |-> NoLog]

(***************************************************************************)
(* Quadratic surds [u, v, d, w] = (u + v*sqrt(d)) / w: the values that     *)
(* math.sqrt produces from a rational and the arithmetic done on them.     *)
(* Canonical form: w > 0, gcd(u, v, w) = 1, d square-free, d = 1 if v = 0. *)
(***************************************************************************)
Surd(u, v, d, w) ==
    LET g == Gcd(Gcd(u, v), w)
        s == IF w < 0 THEN -1 ELSE 1
    IN  [u |-> (s * u) \div g, v |-> (s * v) \div g,
         d |-> IF v = 0 THEN 1 ELSE d, w |-> (s * w) \div g]

SurdOfRat(x) == Surd(x[1], 0, 1, x[2])

RECURSIVE SquarePartFrom(_, _, _)
SquarePartFrom(m, k, best) ==
    IF k * k > m THEN best
    ELSE SquarePartFrom(m, k + 1, IF m % (k * k) = 0 THEN k ELSE best)

\* the largest k with k*k dividing m, for m >= 1
SquarePart(m) == SquarePartFrom(m, 1, 1)

\* sqrt(m) for an integer m >= 0, as k * sqrt(d) with d square-free
SqrtInt(m) ==
    IF m = 0 THEN Surd(0, 0, 1, 1)
    ELSE LET k == SquarePart(m)
             d == m \div (k * k)
         IN  IF d = 1 THEN Surd(k, 0, 1, 1) ELSE Surd(0, k, d, 1)

\* math.sqrt(x) for a rational x = p/q >= 0 in lowest terms:
\* sqrt(p) / sqrt(q) = kp*sqrt(dp*dq) / (kq*dq)
math_sqrt(x) ==
    LET kp == IF x[1] = 0 THEN 1 ELSE SquarePart(x[1])
        kq == SquarePart(x[2])
        dp == x[1] \div (kp * kp)
        dq == x[2] \div (kq * kq)
    IN  IF x[1] = 0 THEN Surd(0, 0, 1, 1)
        ELSE IF dp * dq = 1 THEN Surd(kp, 0, 1, kq)
        ELSE Surd(0, kp, dp * dq, kq * dq)

SurdNeg(s) == Surd(-s.u, -s.v, s.d, s.w)

\* s + x and s / x (x # 0) for a surd s and a rational x
SurdAddRat(s, x) == Surd(s.u * x[2] + x[1] * s.w, s.v * x[2], s.d, s.w * x[2])

SurdMulRat(s, x) == Surd(s.u * x[1], s.v * x[1], s.d, s.w * x[2])

SurdDivRat(s, x) == Surd(s.u * x[2], s.v * x[2], s.d, s.w * x[1])

\* s + t for surds over the same radicand (or with one of them rational)
SurdAdd(s, t) ==
    Surd(s.u * t.w + t.u * s.w, s.v * t.w + t.v * s.w,
         IF s.v = 0 THEN t.d ELSE s.d, s.w * t.w)

SurdSub(s, t) == SurdAdd(s, SurdNeg(t))

\* s * s
SurdSq(s) == Surd(s.u * s.u + s.v * s.v * s.d, 2 * s.u * s.v, s.d, s.w * s.w)

SurdIsZero(s) == s.u = 0 /\ s.v = 0

\* the sign of (u + v*sqrt(d)) / w, w > 0
SurdSign(s) ==
    IF s.v = 0 THEN Sign(s.u)
    ELSE IF s.u = 0 THEN Sign(s.v)
    ELSE IF Sign(s.u) = Sign(s.v) THEN Sign(s.u)
    ELSE IF s.u * s.u > s.v * s.v * s.d THEN Sign(s.u) ELSE Sign(s.v)

(***************************************************************************)
(* The ** operator on floats.                                              *)
(***************************************************************************)
\* x ** e for x > 0: exact when the root is rational, symbolic otherwise
RealPow(x, e) ==
    LET p == Abs(e[1])
        q == e[2]
        y == IF e[1] >= 0 THEN x ELSE <<x[2], x[1]>>
        n == IPow(y[1], p)
        m == IPow(y[2], p)
    IN  IF HasIRoot(n, q) /\ HasIRoot(m, q)
        THEN [exact |-> TRUE, rat |-> <<IRoot(n, q), IRoot(m, q)>>,
              base |-> x, exp |-> e]
        ELSE [exact |-> FALSE, rat |-> <<0, 1>>, base |-> x, exp |-> e]

\* x ** e as Python evaluates it for floats x and e: a negative base with a
\* non-integer exponent gives the principal complex value
\* mag * (cos(pi*arg) + i*sin(pi*arg))
float_pow(x, e) ==
    IF e[1] = 0 THEN Ok("float", RealPow(<<1, 1>>, e))
    ELSE IF x[1] = 0 THEN
        IF e[1] < 0
        THEN Raise("ZeroDivisionError", "0.0 cannot be raised to a negative power")
        ELSE Ok("float", [exact |-> TRUE, rat |-> <<0, 1>>, base |-> x, exp |-> e])
    ELSE IF x[1] < 0 THEN
        IF RatIsInt(e)
        THEN LET r == RealPow(RatNeg(x), e)
                 sgn == IF e[1] % 2 = 0 THEN 1 ELSE -1
             IN  Ok("float", [r EXCEPT !.rat = <<sgn * r.rat[1], r.rat[2]>>,
                                       !.base = x])
        ELSE Ok("complex", [mag |-> RealPow(RatNeg(x), e), arg |-> e])
    ELSE Ok("float", RealPow(x, e))

(***************************************************************************)
(* Basic arithmetic tools.                                                 *)
(***************************************************************************)
add(a, b) == Ok("float", RatAdd(a, b))

subtract(a, b) == Ok("float", RatSub(a, b))

multiply(a, b) == Ok("float", RatMul(a, b))

\* divide without its guard: a / 0 is Python's own ZeroDivisionError
DivideNoCheck(a, b) ==
    IF RatIsZero(b) THEN Raise("ZeroDivisionError", "float division by zero")
    ELSE Ok("float", RatDiv(a, b))

divide(a, b) ==
    IF RatIsZero(b)
    THEN Raise("ValueError", "Division by zero is not allowed")
    ELSE Ok("float", RatDiv(a, b))

power(base, exponent) == float_pow(base, exponent)

SquareRootOfMagnitude(number) ==
    Ok("float", math_sqrt(<<Abs(number[1]), number[2]>>))

square_root(number) ==
    IF number[1] < 0
    THEN Raise("ValueError", "Cannot calculate square root of negative number")
    ELSE Ok("float", math_sqrt(number))

nth_root(number, n) ==
    IF n = 0 THEN Raise("ValueError", "Root degree cannot be zero")
    ELSE IF number[1] < 0 /\ n % 2 = 0
    THEN Raise("ValueError", "Cannot calculate even root of negative number")
    ELSE float_pow(number, Rat(1, n))

percentage(part, whole) ==
    IF RatIsZero(whole) THEN Raise("ValueError", "Whole cannot be zero")
    ELSE Ok("float", RatMul(RatDiv(part, whole), <<100, 1>>))

(***************************************************************************)
(* Number theory tools (the loops are the step actions further down).      *)
(***************************************************************************)
RECURSIVE math_factorial(_)
math_factorial(n) == IF n <= 1 THEN 1 ELSE n * math_factorial(n - 1)

factorial(n) ==
    IF n < 0
    THEN Raise("ValueError", "Factorial is not defined for negative numbers")
    ELSE Ok("int", math_factorial(n))

gcd(a, b) == Ok("int", Gcd(a, b))

LcmNoAbs(a, b) ==
    IF a # 0 /\ b # 0 THEN Ok("int", FloorDiv(a * b, Gcd(a, b)))
    ELSE Ok("int", 0)

lcm(a, b) ==
    IF a # 0 /\ b # 0 THEN Ok("int", FloorDiv(Abs(a * b), Gcd(a, b)))
    ELSE Ok("int", 0)

IsPrimeStopShort(n) == isqrt(n)

\* the end of range(3, int(math.sqrt(n)) + 1, 2)
is_prime_stop(n) == isqrt(n) + 1

FibStopShort(n) == n

\* the end of range(2, n + 1)
fib_stop(n) == n + 1

PfNextSkip(d) == d + 2

\* d += 1
pf_next_d(d) == d + 1

(***************************************************************************)
(* Statistics tools: the statistics module's functions on a list of floats *)
(* and the tools that guard them.                                          *)
(***************************************************************************)
RECURSIVE SumSeq(_)
SumSeq(s) == IF s = <<>> THEN <<0, 1>> ELSE RatAdd(s[1], SumSeq(Tail(s)))

\* sum((x - c) ** 2 for x in s)
RECURSIVE SumSqDev(_, _)
SumSqDev(s, c) ==
    IF s = <<>> THEN <<0, 1>>
    ELSE LET dv == RatSub(s[1], c)
         IN  RatAdd(RatMul(dv, dv), SumSqDev(Tail(s), c))

Mean(s) == RatDiv(SumSeq(s), <<Len(s), 1>>)

sorted(s) == SortSeq(s, LAMBDA x, y : RatLess(x, y))

Count(s, x) == Cardinality({ i \in 1..Len(s) : s[i] = x })

statistics_mean(s) ==
    IF Len(s) < 1
    THEN Raise("StatisticsError", "mean requires at least one data point")
    ELSE Ok("float", Mean(s))

statistics_median(s) ==
    LET n == Len(s)
        t == sorted(s)
    IN  IF n = 0 THEN Raise("StatisticsError", "no median for empty data")
        ELSE IF n % 2 = 1 THEN Ok("float", t[n \div 2 + 1])
        ELSE Ok("float", RatDiv(RatAdd(t[n \div 2], t[n \div 2 + 1]), <<2, 1>>))

\* the first of the most common values
statistics_mode(s) ==
    IF Len(s) = 0 THEN Raise("StatisticsError", "no mode for empty data")
    ELSE LET i == CHOOSE i \in 1..Len(s) :
                     /\ \A j \in 1..Len(s) : Count(s, s[j]) <= Count(s, s[i])
                     /\ \A j \in 1..(i - 1) : Count(s, s[j]) < Count(s, s[i])
         IN  Ok("float", s[i])

statistics_variance(s) ==
    IF Len(s) < 2
    THEN Raise("StatisticsError", "variance requires at least two data points")
    ELSE Ok("float", RatDiv(SumSqDev(s, Mean(s)), <<Len(s) - 1, 1>>))

statistics_pvariance(s) ==
    IF Len(s) < 1
    THEN Raise("StatisticsError", "pvariance requires at least one data point")
    ELSE Ok("float", RatDiv(SumSqDev(s, Mean(s)), <<Len(s), 1>>))

statistics_stdev(s) ==
    IF Len(s) < 2
    THEN Raise("StatisticsError", "stdev requires at least two data points")
    ELSE Ok("float", math_sqrt(RatDiv(SumSqDev(s, Mean(s)), <<Len(s) - 1, 1>>)))

statistics_pstdev(s) ==
    IF Len(s) < 1
    THEN Raise("StatisticsError", "pstdev requires at least one data point")
    ELSE Ok("float", math_sqrt(RatDiv(SumSqDev(s, Mean(s)), <<Len(s), 1>>)))

EmptyList == Raise("ValueError", "List cannot be empty")

MeanNoCheck(numbers) == statistics_mean(numbers)

mean(numbers) ==
    IF numbers = <<>> THEN EmptyList ELSE statistics_mean(numbers)

median(numbers) ==
    IF numbers = <<>> THEN EmptyList ELSE statistics_median(numbers)

mode(numbers) ==
    IF numbers = <<>> THEN EmptyList ELSE statistics_mode(numbers)

standard_deviation(numbers, sample) ==
    IF numbers = <<>> THEN EmptyList
    ELSE IF sample THEN statistics_stdev(numbers) ELSE statistics_pstdev(numbers)

variance(numbers, sample) ==
    IF numbers = <<>> THEN EmptyList
    ELSE IF sample THEN statistics_variance(numbers)
         ELSE statistics_pvariance(numbers)

(***************************************************************************)
(* Combinatorics and the quadratic solver.                                 *)
(***************************************************************************)
RECURSIVE CombProduct(_, _)
\* n * (n-1) * ... / (1 * 2 * ... * k), multiplied out one factor at a time
CombProduct(n, k) ==
    IF k = 0 THEN 1 ELSE (CombProduct(n, k - 1) * (n - k + 1)) \div k

RECURSIVE PermProduct(_, _)
PermProduct(n, k) == IF k = 0 THEN 1 ELSE n * PermProduct(n - 1, k - 1)

math_comb(n, k) ==
    IF n < 0 THEN Raise("ValueError", "n must be a non-negative integer")
    ELSE IF k < 0 THEN Raise("ValueError", "k must be a non-negative integer")
    ELSE IF k > n THEN Ok("int", 0)
    ELSE Ok("int", CombProduct(n, k))

math_perm(n, k) ==
    IF n < 0 THEN Raise("ValueError", "n must be a non-negative integer")
    ELSE IF k < 0 THEN Raise("ValueError", "k must be a non-negative integer")
    ELSE IF k > n THEN Ok("int", 0)
    ELSE Ok("int", PermProduct(n, k))

CombinationsNoUpperCheck(n, r) ==
    IF r < 0 \/ n < 0 THEN Raise("ValueError", "Invalid values for n and r")
    ELSE math_comb(n, r)

combinations(n, r) ==
    IF r < 0 \/ r > n \/ n < 0
    THEN Raise("ValueError", "Invalid values for n and r")
    ELSE math_comb(n, r)

permutations(n, r) ==
    IF r < 0 \/ r > n \/ n < 0
    THEN Raise("ValueError", "Invalid values for n and r")
    ELSE math_perm(n, r)

\* a float x, as an element of the returned tuple
FloatElem(x) == [t |-> "float", re |-> x, im |-> Surd(0, 0, 1, 1)]

\* complex(re, im)
complex(re, im) == [t |-> "complex", re |-> re, im |-> im]

SolveQuadraticSorted(a, b, c) ==
    IF RatIsZero(a)
    THEN Raise("ValueError", "Coefficient 'a' cannot be zero for quadratic equation")
    ELSE
    LET discriminant == RatSub(RatMul(b, b), RatMul(<<4, 1>>, RatMul(a, c)))
        two_a == RatMul(<<2, 1>>, a)
    IN  IF ~RatLess(discriminant, <<0, 1>>)
        THEN LET sqrt_discriminant == math_sqrt(discriminant)
                 x1 == SurdDivRat(SurdAddRat(sqrt_discriminant, RatNeg(b)), two_a)
                 x2 == SurdDivRat(SurdAddRat(SurdNeg(sqrt_discriminant), RatNeg(b)),
                                  two_a)
             IN  IF SurdSign(SurdSub(x1, x2)) < 0
                 THEN Ok("tuple", <<FloatElem(x1), FloatElem(x2)>>)
                 ELSE Ok("tuple", <<FloatElem(x2), FloatElem(x1)>>)
        ELSE LET real_part == SurdOfRat(RatDiv(RatNeg(b), two_a))
                 imaginary_part == SurdDivRat(math_sqrt(RatNeg(discriminant)), two_a)
             IN  Ok("tuple", <<complex(real_part, imaginary_part),
                               complex(real_part, SurdNeg(imaginary_part))>>)

solve_quadratic(a, b, c) ==
    IF RatIsZero(a)
    THEN Raise("ValueError", "Coefficient 'a' cannot be zero for quadratic equation")
    ELSE
    LET discriminant == RatSub(RatMul(b, b), RatMul(<<4, 1>>, RatMul(a, c)))
        two_a == RatMul(<<2, 1>>, a)
    IN  IF ~RatLess(discriminant, <<0, 1>>)
        THEN LET sqrt_discriminant == math_sqrt(discriminant)
                 x1 == SurdDivRat(SurdAddRat(sqrt_discriminant, RatNeg(b)), two_a)
                 x2 == SurdDivRat(SurdAddRat(SurdNeg(sqrt_discriminant), RatNeg(b)),
                                  two_a)
             IN  Ok("tuple", <<FloatElem(x1), FloatElem(x2)>>)
        ELSE LET real_part == SurdOfRat(RatDiv(RatNeg(b), two_a))
                 imaginary_part == SurdDivRat(math_sqrt(RatNeg(discriminant)), two_a)
             IN  Ok("tuple", <<complex(real_part, imaginary_part),
                               complex(real_part, SurdNeg(imaginary_part))>>)

(***************************************************************************)
(* The arguments the model draws from.                                     *)
(***************************************************************************)
\* lists hold the floats 0.0 .. MaxElem
MaxElem == 3
\* fibonacci is called with n in -2..MaxFib
MaxFib == 12
\* gcd and lcm are called with a, b in -MaxAB..MaxAB
MaxAB == 6

Ints == -2..MaxInt

Radicands == { <<k, 1>> : k \in -MaxRad..MaxRad }

Degrees == -MaxDeg..MaxDeg

ListVals == { <<k, 1>> : k \in 0..MaxElem }

Lists == UNION { [1..k -> ListVals] : k \in 0..MaxLen }

CombArgs == -1..MaxComb

(***************************************************************************)
(* The tools each revision registers with @mcp.tool: name, parameters in   *)
(* order, each with its annotation and its default.                        *)
(***************************************************************************)
\* a parameter without a default
Required == "<required>"

Param(n, t, d) == [name |-> n, type |-> t, default |-> d]

Tool(n, ps) == [name |-> n, params |-> ps]

\* src/main.py
RegisteredPlain ==
    {Tool("add",
          <<Param("a", "float", Required), Param("b", "float", Required)>>),
     Tool("subtract",
          <<Param("a", "float", Required), Param("b", "float", Required)>>),
     Tool("multiply",
          <<Param("a", "float", Required), Param("b", "float", Required)>>),
     Tool("divide",
          <<Param("a", "float", Required), Param("b", "float", Required)>>),
     Tool("power",
          <<Param("base", "float", Required),
            Param("exponent", "float", Required)>>),
     Tool("square_root", <<Param("number", "float", Required)>>),
     Tool("nth_root",
          <<Param("number", "float", Required), Param("n", "int", Required)>>),
     Tool("sin",
          <<Param("angle", "float", Required),
            Param("degrees", "bool", "False")>>),
     Tool("cos",
          <<Param("angle", "float", Required),
            Param("degrees", "bool", "False")>>),
     Tool("tan",
          <<Param("angle", "float", Required),
            Param("degrees", "bool", "False")>>),
     Tool("asin",
          <<Param("value", "float", Required),
            Param("degrees", "bool", "False")>>),
     Tool("acos",
          <<Param("value", "float", Required),
            Param("degrees", "bool", "False")>>),
     Tool("atan",
          <<Param("value", "float", Required),
            Param("degrees", "bool", "False")>>),
     Tool("log",
          <<Param("number", "float", Required),
            Param("base", "float", "math.e")>>),
     Tool("log10", <<Param("number", "float", Required)>>),
     Tool("ln", <<Param("number", "float", Required)>>),
     Tool("factorial", <<Param("n", "int", Required)>>),
     Tool("gcd", <<Param("a", "int", Required), Param("b", "int", Required)>>),
     Tool("lcm", <<Param("a", "int", Required), Param("b", "int", Required)>>),
     Tool("is_prime", <<Param("n", "int", Required)>>),
     Tool("prime_factors", <<Param("n", "int", Required)>>),
     Tool("fibonacci", <<Param("n", "int", Required)>>),
     Tool("mean", <<Param("numbers", "List[float]", Required)>>),
     Tool("median", <<Param("numbers", "List[float]", Required)>>),
     Tool("mode", <<Param("numbers", "List[float]", Required)>>),
     Tool("standard_deviation",
          <<Param("numbers", "List[float]", Required),
            Param("sample", "bool", "True")>>),
     Tool("variance",
          <<Param("numbers", "List[float]", Required),
            Param("sample", "bool", "True")>>),
     Tool("circle_area", <<Param("radius", "float", Required)>>),
     Tool("circle_circumference", <<Param("radius", "float", Required)>>),
     Tool("rectangle_area",
          <<Param("length", "float", Required),
            Param("width", "float", Required)>>),
     Tool("triangle_area",
          <<Param("base", "float", Required),
            Param("height", "float", Required)>>),
     Tool("sphere_volume", <<Param("radius", "float", Required)>>),
     Tool("distance_2d",
          <<Param("x1", "float", Required), Param("y1", "float", Required),
            Param("x2", "float", Required), Param("y2", "float", Required)>>),
     Tool("distance_3d",
          <<Param("x1", "float", Required), Param("y1", "float", Required),
            Param("z1", "float", Required), Param("x2", "float", Required),
            Param("y2", "float", Required), Param("z2", "float", Required)>>),
     Tool("combinations",
          <<Param("n", "int", Required), Param("r", "int", Required)>>),
     Tool("permutations",
          <<Param("n", "int", Required), Param("r", "int", Required)>>),
     Tool("solve_quadratic",
          <<Param("a", "float", Required), Param("b", "float", Required),
            Param("c", "float", Required)>>),
     Tool("random_number",
          <<Param("min_val", "float", "0"), Param("max_val", "float", "1")>>),
     Tool("random_integer",
          <<Param("min_val", "int", "0"), Param("max_val", "int", "100")>>),
     Tool("absolute_value", <<Param("number", "float", Required)>>),
     Tool("ceiling", <<Param("number", "float", Required)>>),
     Tool("floor", <<Param("number", "float", Required)>>),
     Tool("round_number",
          <<Param("number", "float", Required),
            Param("decimals", "int", "0")>>),
     Tool("fraction_from_decimal",
          <<Param("decimal_num", "float", Required)>>),
     Tool("percentage",
          <<Param("part", "float", Required),
            Param("whole", "float", Required)>>)}

\* src/src/main.py
RegisteredLogging ==
    {Tool("add",
          <<Param("a", "float", Required), Param("b", "float", Required),
            Param("ctx", "Context", Required)>>),
     Tool("subtract",
          <<Param("a", "float", Required), Param("b", "float", Required)>>),
     Tool("multiply",
          <<Param("a", "float", Required), Param("b", "float", Required)>>),
     Tool("divide",
          <<Param("a", "float", Required), Param("b", "float", Required)>>),
     Tool("power",
          <<Param("base", "float", Required),
            Param("exponent", "float", Required)>>),
     Tool("square_root", <<Param("number", "float", Required)>>),
     Tool("nth_root",
          <<Param("number", "float", Required), Param("n", "int", Required)>>),
     Tool("sin",
          <<Param("angle", "float", Required),
            Param("degrees", "bool", "False")>>),
     Tool("cos",
          <<Param("angle", "float", Required),
            Param("degrees", "bool", "False")>>),
     Tool("tan",
          <<Param("angle", "float", Required),
            Param("degrees", "bool", "False")>>),
     Tool("asin",
          <<Param("value", "float", Required),
            Param("degrees", "bool", "False")>>),
     Tool("acos",
          <<Param("value", "float", Required),
            Param("degrees", "bool", "False")>>),
     Tool("atan",
          <<Param("value", "float", Required),
            Param("degrees", "bool", "False")>>),
     Tool("log",
          <<Param("number", "float", Required),
            Param("base", "float", "math.e")>>),
     Tool("log10", <<Param("number", "float", Required)>>),
     Tool("ln", <<Param("number", "float", Required)>>),
     Tool("factorial", <<Param("n", "int", Required)>>),
     Tool("gcd", <<Param("a", "int", Required), Param("b", "int", Required)>>),
     Tool("lcm", <<Param("a", "int", Required), Param("b", "int", Required)>>),
     Tool("is_prime", <<Param("n", "int", Required)>>),
     Tool("prime_factors", <<Param("n", "int", Required)>>),
     Tool("fibonacci", <<Param("n", "int", Required)>>),
     Tool("mean", <<Param("numbers", "List[float]", Required)>>),
     Tool("median", <<Param("numbers", "List[float]", Required)>>),
     Tool("mode", <<Param("numbers", "List[float]", Required)>>),
     Tool("standard_deviation",
          <<Param("numbers", "List[float]", Required),
            Param("sample", "bool", "True")>>),
     Tool("variance",
          <<Param("numbers", "List[float]", Required),
            Param("sample", "bool", "True")>>),
     Tool("circle_area", <<Param("radius", "float", Required)>>),
     Tool("circle_circumference", <<Param("radius", "float", Required)>>),
     Tool("rectangle_area",
          <<Param("length", "float", Required),
            Param("width", "float", Required)>>),
     Tool("triangle_area",
          <<Param("base", "float", Required),
            Param("height", "float", Required)>>),
     Tool("sphere_volume", <<Param("radius", "float", Required)>>),
     Tool("distance_2d",
          <<Param("x1", "float", Required), Param("y1", "float", Required),
            Param("x2", "float", Required), Param("y2", "float", Required)>>),
     Tool("distance_3d",
          <<Param("x1", "float", Required), Param("y1", "float", Required),
            Param("z1", "float", Required), Param("x2", "float", Required),
            Param("y2", "float", Required), Param("z2", "float", Required)>>),
     Tool("combinations",
          <<Param("n", "int", Required), Param("r", "int", Required)>>),
     Tool("permutations",
          <<Param("n", "int", Required), Param("r", "int", Required)>>),
     Tool("solve_quadratic",
          <<Param("a", "float", Required), Param("b", "float", Required),
            Param("c", "float", Required)>>),
     Tool("random_number",
          <<Param("min_val", "float", "0"), Param("max_val", "float", "1")>>),
     Tool("random_integer",
          <<Param("min_val", "int", "0"), Param("max_val", "int", "100")>>),
     Tool("absolute_value", <<Param("number", "float", Required)>>),
     Tool("ceiling", <<Param("number", "float", Required)>>),
     Tool("floor", <<Param("number", "float", Required)>>),
     Tool("round_number",
          <<Param("number", "float", Required),
            Param("decimals", "int", "0")>>),
     Tool("fraction_from_decimal",
          <<Param("decimal_num", "float", Required)>>),
     Tool("percentage",
          <<Param("part", "float", Required),
            Param("whole", "float", Required)>>)}

Registered(rev) == IF rev = "plain" THEN RegisteredPlain ELSE RegisteredLogging

\* a parameter annotated Context is supplied by FastMCP, not by the caller:
\* it is not part of the input schema the tool is registered with
IsCallerParam(q) == q.type # "Context"

InputSchema(t) == Tool(t.name, SelectSeq(t.params, IsCallerParam))

\* what a caller sees of the plain revision's tools
InputSchemasPlain == {InputSchema(t) : t \in Registered("plain")}

\* and of the logging revision's
InputSchemasLogging == {InputSchema(t) : t \in Registered("logging")}

(***************************************************************************)
(* The invocation state machine.                                           *)
(***************************************************************************)
Init ==
    /\ revision \in {"plain", "logging"}
    /\ pc = "idle"
    /\ op = "none"
    /\ args = <<>>
    /\ result = NoResult
    /\ locals = NoLocals
    /\ steps = 0
    /\ lastLog = NoLog
    /\ other = NoOther

\* logger.info("MCP tool called: <tool>", ...), the first statement of every
\* tool of the logging revision; the plain revision has no such statement.
\* lastLog is the message of the last record written, <tool> standing for it
Logged(o) == IF revision = "logging" THEN <<o>> ELSE lastLog

\* the values a call can receive as its i-th argument: any of S, except
\* that two servers running side by side get the same requests, so that
\* when the other server has a request in hand it is that request's argument
Offered(i, S) ==
    IF other.kind = "server" /\ other.pc # "idle"
    THEN {x \in {other.args[i]} : x \in S}
    ELSE S

\* a tool whose body runs to its return or raise in one step
Run(o, a, r) ==
    /\ pc = "idle"
    /\ pc' = "done"
    /\ op' = o
    /\ args' = a
    /\ result' = r
    /\ lastLog' = Logged(o)
    /\ UNCHANGED <<revision, other, locals, steps>>

\* a tool that enters a loop, or suspends, at position p with locals l
Enter(o, a, p, l) ==
    /\ pc = "idle"
    /\ pc' = p
    /\ op' = o
    /\ args' = a
    /\ result' = NoResult
    /\ locals' = l
    /\ lastLog' = Logged(o)
    /\ UNCHANGED <<revision, other, steps>>

\* return or raise out of a loop or after a suspension
Leave(p, r) ==
    /\ pc = p
    /\ pc' = "done"
    /\ result' = r
    /\ UNCHANGED <<revision, other, op, args, locals, steps, lastLog>>

\* add: a plain function in src/main.py
Call_add_plain ==
    /\ pc = "idle"
    /\ revision = "plain"
    /\ \E a \in Offered(1, Floats), b \in Offered(2, Floats) :
           Run("add", <<a, b>>, add(a, b))

\* add: a coroutine in src/src/main.py, suspended in await ctx.info(...)
Call_add_logging ==
    /\ pc = "idle"
    /\ revision = "logging"
    /\ \E a \in Offered(1, Floats), b \in Offered(2, Floats) :
           Enter("add", <<a, b>>, "add_await", NoLocals)

AddNotifiedFirstAddend ==
    /\ pc = "add_await"
    /\ Leave("add_await", Ok("float", args[1]))

\* ctx.info completes: return a + b
add_notified ==
    /\ pc = "add_await"
    /\ Leave("add_await", add(args[1], args[2]))

\* ctx.info raises: nothing in add catches it, the exception leaves the tool
add_notify_failed ==
    /\ pc = "add_await"
    /\ Leave("add_await", Raise("NotificationError", "ctx.info failed"))

Call_subtract ==
    /\ pc = "idle"
    /\ \E a \in Offered(1, Floats), b \in Offered(2, Floats) :
           Run("subtract", <<a, b>>, subtract(a, b))

Call_multiply ==
    /\ pc = "idle"
    /\ \E a \in Offered(1, Floats), b \in Offered(2, Floats) :
           Run("multiply", <<a, b>>, multiply(a, b))

Call_divide ==
    /\ pc = "idle"
    /\ \E a \in Offered(1, Floats), b \in Offered(2, Floats) :
           Run("divide", <<a, b>>, divide(a, b))

Call_power ==
    /\ pc = "idle"
    /\ \E base \in Offered(1, Floats), exponent \in Offered(2, Floats) :
           Run("power", <<base, exponent>>, power(base, exponent))

Call_square_root ==
    /\ pc = "idle"
    /\ \E number \in Offered(1, Floats) :
           Run("square_root", <<number>>, square_root(number))

Call_nth_root ==
    /\ pc = "idle"
    /\ \E number \in Offered(1, Radicands), n \in Offered(2, Degrees) :
           Run("nth_root", <<number, n>>, nth_root(number, n))

Call_percentage ==
    /\ pc = "idle"
    /\ \E part \in Offered(1, Floats), whole \in Offered(2, Floats) :
           Run("percentage", <<part, whole>>, percentage(part, whole))

Call_factorial ==
    /\ pc = "idle"
    /\ \E n \in Offered(1, CombArgs) : Run("factorial", <<n>>, factorial(n))

Call_gcd ==
    /\ pc = "idle"
    /\ \E a \in Offered(1, -MaxAB..MaxAB), b \in Offered(2, -MaxAB..MaxAB) :
           Run("gcd", <<a, b>>, gcd(a, b))

Call_lcm ==
    /\ pc = "idle"
    /\ \E a \in Offered(1, -MaxAB..MaxAB), b \in Offered(2, -MaxAB..MaxAB) :
           Run("lcm", <<a, b>>, lcm(a, b))

Call_mean ==
    /\ pc = "idle"
    /\ \E numbers \in Offered(1, Lists) :
           Run("mean", <<numbers>>, mean(numbers))

Call_median ==
    /\ pc = "idle"
    /\ \E numbers \in Offered(1, Lists) :
           Run("median", <<numbers>>, median(numbers))

Call_mode ==
    /\ pc = "idle"
    /\ \E numbers \in Offered(1, Lists) :
           Run("mode", <<numbers>>, mode(numbers))

Call_standard_deviation ==
    /\ pc = "idle"
    /\ \E numbers \in Offered(1, Lists), sample \in Offered(2, BOOLEAN) :
           Run("standard_deviation", <<numbers, sample>>,
               standard_deviation(numbers, sample))

Call_variance ==
    /\ pc = "idle"
    /\ \E numbers \in Offered(1, Lists), sample \in Offered(2, BOOLEAN) :
           Run("variance", <<numbers, sample>>, variance(numbers, sample))

Call_combinations ==
    /\ pc = "idle"
    /\ \E n \in Offered(1, CombArgs), r \in Offered(2, CombArgs) :
           Run("combinations", <<n, r>>, combinations(n, r))

Call_permutations ==
    /\ pc = "idle"
    /\ \E n \in Offered(1, CombArgs), r \in Offered(2, CombArgs) :
           Run("permutations", <<n, r>>, permutations(n, r))

Call_solve_quadratic ==
    /\ pc = "idle"
    /\ \E a \in Offered(1, Floats),
           b \in Offered(2, Floats),
           c \in Offered(3, Floats) :
           Run("solve_quadratic", <<a, b, c>>, solve_quadratic(a, b, c))

(***************************************************************************)
(* is_prime: the early returns, then one action per pass of the for loop.  *)
(***************************************************************************)
Call_is_prime ==
    /\ pc = "idle"
    /\ \E n \in Offered(1, Ints) :
           IF n < 2 THEN Run("is_prime", <<n>>, Ok("bool", FALSE))
           ELSE IF n = 2 THEN Run("is_prime", <<n>>, Ok("bool", TRUE))
           ELSE IF n % 2 = 0 THEN Run("is_prime", <<n>>, Ok("bool", FALSE))
           ELSE Enter("is_prime", <<n>>, "is_prime_loop",
                      [i |-> 3, stop |-> is_prime_stop(n)])

\* if n % i == 0: return False
is_prime_divisor ==
    /\ pc = "is_prime_loop"
    /\ locals.i < locals.stop
    /\ args[1] % locals.i = 0
    /\ pc' = "done"
    /\ result' = Ok("bool", FALSE)
    /\ steps' = steps + 1
    /\ UNCHANGED <<revision, other, op, args, locals, lastLog>>

\* n % i != 0: the next i of range(3, stop, 2)
is_prime_next ==
    /\ pc = "is_prime_loop"
    /\ locals.i < locals.stop
    /\ args[1] % locals.i # 0
    /\ locals' = [locals EXCEPT !.i = @ + 2]
    /\ steps' = steps + 1
    /\ UNCHANGED <<revision, other, pc, op, args, result, lastLog>>

\* the range is exhausted: return True
is_prime_exhausted ==
    /\ pc = "is_prime_loop"
    /\ locals.i >= locals.stop
    /\ Leave("is_prime_loop", Ok("bool", TRUE))

(***************************************************************************)
(* prime_factors: the outer while tests d * d <= n, the inner while        *)
(* extracts d as long as it divides n.                                     *)
(***************************************************************************)
PfArgs == Ints \cup {360}

Call_prime_factors ==
    /\ pc = "idle"
    /\ \E n \in Offered(1, PfArgs) :
           IF n <= 1 THEN Run("prime_factors", <<n>>, Ok("list", <<>>))
           ELSE Enter("prime_factors", <<n>>, "pf_outer",
                      [n |-> n, d |-> 2, factors |-> <<>>])

\* while d * d <= n: enter the body
pf_test ==
    /\ pc = "pf_outer"
    /\ locals.d * locals.d <= locals.n
    /\ pc' = "pf_inner"
    /\ steps' = steps + 1
    /\ UNCHANGED <<revision, other, op, args, result, locals, lastLog>>

\* while n % d == 0: factors.append(d); n //= d
pf_extract ==
    /\ pc = "pf_inner"
    /\ locals.n % locals.d = 0
    /\ locals' = [locals EXCEPT !.factors = Append(@, locals.d),
                                !.n = FloorDiv(@, locals.d)]
    /\ steps' = steps + 1
    /\ UNCHANGED <<revision, other, pc, op, args, result, lastLog>>

\* the inner while ends: d += 1
pf_next ==
    /\ pc = "pf_inner"
    /\ locals.n % locals.d # 0
    /\ locals' = [locals EXCEPT !.d = pf_next_d(@)]
    /\ pc' = "pf_outer"
    /\ UNCHANGED <<revision, other, op, args, result, steps, lastLog>>

\* the outer while ends: if n > 1: factors.append(n); return factors
pf_exit ==
    /\ pc = "pf_outer"
    /\ locals.d * locals.d > locals.n
    /\ Leave("pf_outer",
             Ok("list", IF locals.n > 1 THEN Append(locals.factors, locals.n)
                        ELSE locals.factors))

(***************************************************************************)
(* fibonacci: the guards, then one action per pass of the for loop.        *)
(***************************************************************************)
Call_fibonacci ==
    /\ pc = "idle"
    /\ \E n \in Offered(1, -2..MaxFib) :
           IF n < 0
           THEN Run("fibonacci", <<n>>, Raise("ValueError", "n must be non-negative"))
           ELSE IF n <= 1 THEN Run("fibonacci", <<n>>, Ok("int", n))
           ELSE Enter("fibonacci", <<n>>, "fib_loop",
                      [a |-> 0, b |-> 1, i |-> 2, stop |-> fib_stop(n)])

\* a, b = b, a + b
fib_iter ==
    /\ pc = "fib_loop"
    /\ locals.i < locals.stop
    /\ locals' = [locals EXCEPT !.a = locals.b, !.b = locals.a + locals.b,
                                !.i = @ + 1]
    /\ steps' = steps + 1
    /\ UNCHANGED <<revision, other, pc, op, args, result, lastLog>>

\* return b
fib_exit ==
    /\ pc = "fib_loop"
    /\ locals.i >= locals.stop
    /\ Leave("fib_loop", Ok("int", locals.b))

(***************************************************************************)
(* The outcome goes back to the caller; the server takes the next call.    *)
(***************************************************************************)
Respond ==
    /\ pc = "done"
    /\ pc' = "idle"
    /\ op' = "none"
    /\ args' = <<>>
    /\ result' = NoResult
    /\ locals' = NoLocals
    /\ steps' = 0
    /\ UNCHANGED <<revision, other, lastLog>>

Next ==
    \/ Call_add_plain \/ Call_add_logging \/ add_notified \/ add_notify_failed
    \/ Call_subtract \/ Call_multiply \/ Call_divide \/ Call_power
    \/ Call_square_root \/ Call_nth_root \/ Call_percentage
    \/ Call_factorial \/ Call_gcd \/ Call_lcm
    \/ Call_is_prime \/ is_prime_divisor \/ is_prime_next \/ is_prime_exhausted
    \/ Call_prime_factors \/ pf_test \/ pf_extract \/ pf_next \/ pf_exit
    \/ Call_fibonacci \/ fib_iter \/ fib_exit
    \/ Call_mean \/ Call_median \/ Call_mode
    \/ Call_standard_deviation \/ Call_variance
    \/ Call_combinations \/ Call_permutations \/ Call_solve_quadratic
    \/ Respond

Spec == Init /\ [][Next]_vars

\* the server hands control from the running invocation to the waiting one:
\* each invocation keeps its own frame (arguments, locals, position, outcome),
\* the module-level logger stays where it is
SwitchInvocation ==
    /\ other.kind = "invocation"
    /\ other' = [kind |-> "invocation", pc |-> pc, op |-> op, args |-> args,
                 result |-> result, locals |-> locals, steps |-> steps]
    /\ pc' = other.pc
    /\ op' = other.op
    /\ args' = other.args
    /\ result' = other.result
    /\ locals' = other.locals
    /\ steps' = other.steps
    /\ UNCHANGED <<revision, lastLog>>

\* two invocations in flight, both idle
ConcInit ==
    /\ revision \in {"plain", "logging"}
    /\ pc = "idle"
    /\ op = "none"
    /\ args = <<>>
    /\ result = NoResult
    /\ locals = NoLocals
    /\ steps = 0
    /\ lastLog = NoLog
    /\ other = IdleFrame

\* the server when add and fibonacci are called concurrently
ConcNext ==
    \/ Call_add_plain \/ Call_add_logging \/ add_notified \/ add_notify_failed
    \/ Call_fibonacci \/ fib_iter \/ fib_exit
    \/ Respond
    \/ SwitchInvocation

ConcSpec == ConcInit /\ [][ConcNext]_vars

(***************************************************************************)
(* The two revisions side by side: the variables are the server that takes *)
(* the next step, `other` is the server of the other revision.  A request  *)
(* goes to both: a server is called with the request the other server has *)
(* in hand, if it has one (Expected, Offered).                             *)
(***************************************************************************)
SwitchServer ==
    /\ other.kind = "server"
    /\ other' = [kind |-> "server", revision |-> revision, pc |-> pc,
                 op |-> op, args |-> args, result |-> result,
                 locals |-> locals, steps |-> steps, lastLog |-> lastLog]
    /\ revision' = other.revision
    /\ pc' = other.pc
    /\ op' = other.op
    /\ args' = other.args
    /\ result' = other.result
    /\ locals' = other.locals
    /\ steps' = other.steps
    /\ lastLog' = other.lastLog

EquivInit ==
    /\ revision = "plain"
    /\ pc = "idle"
    /\ op = "none"
    /\ args = <<>>
    /\ result = NoResult
    /\ locals = NoLocals
    /\ steps = 0
    /\ lastLog = NoLog
    /\ other = IdleServer("logging")

\* the other server is idle, or the request it has in hand is for tool o
Expected(o) == other.pc = "idle" \/ other.op = o

EquivNext ==
    \/ Expected("add") /\ Call_add_plain
    \/ Expected("add") /\ Call_add_logging
    \/ Expected("subtract") /\ Call_subtract
    \/ Expected("multiply") /\ Call_multiply
    \/ Expected("divide") /\ Call_divide
    \/ Expected("power") /\ Call_power
    \/ Expected("square_root") /\ Call_square_root
    \/ Expected("nth_root") /\ Call_nth_root
    \/ Expected("percentage") /\ Call_percentage
    \/ Expected("factorial") /\ Call_factorial
    \/ Expected("gcd") /\ Call_gcd
    \/ Expected("lcm") /\ Call_lcm
    \/ Expected("is_prime") /\ Call_is_prime
    \/ Expected("prime_factors") /\ Call_prime_factors
    \/ Expected("fibonacci") /\ Call_fibonacci
    \/ Expected("mean") /\ Call_mean
    \/ Expected("median") /\ Call_median
    \/ Expected("mode") /\ Call_mode
    \/ Expected("standard_deviation") /\ Call_standard_deviation
    \/ Expected("variance") /\ Call_variance
    \/ Expected("combinations") /\ Call_combinations
    \/ Expected("permutations") /\ Call_permutations
    \/ Expected("solve_quadratic") /\ Call_solve_quadratic
    \/ add_notified \/ add_notify_failed
    \/ is_prime_divisor \/ is_prime_next \/ is_prime_exhausted
    \/ pf_test \/ pf_extract \/ pf_next \/ pf_exit
    \/ fib_iter \/ fib_exit
    \/ Respond
    \/ SwitchServer

EquivSpec == EquivInit /\ [][EquivNext]_vars

\* the server when only prime_factors is called
PrimeFactorsNext ==
    \/ Call_prime_factors \/ pf_test \/ pf_extract \/ pf_next \/ pf_exit
    \/ Respond

\* the interpreter keeps executing a tool that has a step to take
PrimeFactorsSpec ==
    Init /\ [][PrimeFactorsNext]_vars /\ WF_vars(PrimeFactorsNext)

(***************************************************************************)
(* Vocabulary of the properties.                                           *)
(***************************************************************************)
Done(o) == pc = "done" /\ op = o

\* a Domain Error: the ValueError a tool raises on a violated precondition
IsDomainError(r) == r.kind = "error" /\ r.type = "ValueError"

\* the return annotation of each tool
DeclaredType(o) ==
    CASE o \in {"add", "subtract", "multiply", "divide", "power", "square_root",
                "nth_root", "percentage", "mean", "median", "mode",
                "standard_deviation", "variance"} -> "float"
      [] o \in {"factorial", "gcd", "lcm", "fibonacci", "combinations",
                "permutations"} -> "int"
      [] o = "is_prime" -> "bool"
      [] o = "prime_factors" -> "list"
      [] o = "solve_quadratic" -> "tuple"

\* a*x^2 + b*x + c for a real surd x
QuadAt(a, b, c, x) ==
    SurdAddRat(SurdAdd(SurdMulRat(SurdSq(x), a), SurdMulRat(x, b)), c)

\* the non-negative square root of the rational y
IsSqrtOf(s, y) == SurdSign(s) >= 0 /\ SurdSq(s) = SurdOfRat(y)

Zero == Surd(0, 0, 1, 1)

One == Surd(1, 0, 1, 1)

\* the statistics tools
StatTools == {"mean", "median", "mode", "standard_deviation", "variance"}

\* the call asks for a sample statistic (sample = True)
IsSample == op \in {"standard_deviation", "variance"} /\ args[2]

\* n is a prime number
IsPrimeNumber(n) == n >= 2 /\ \A k \in 2..(n - 1) : n % k # 0

\* the product of the elements of a list of integers
RECURSIVE Product(_)
Product(s) == IF s = <<>> THEN 1 ELSE s[1] * Product(Tail(s))

NonDecreasing(s) == \A i \in 1..(Len(s) - 1) : s[i] <= s[i + 1]

\* m is a multiple of both a and b (a, b nonzero)
IsCommonMultiple(m, a, b) == m % Abs(a) = 0 /\ m % Abs(b) = 0

\* the Fibonacci sequence, 0-indexed
RECURSIVE F(_)
F(k) == IF k = 0 THEN 0 ELSE IF k = 1 THEN 1 ELSE F(k - 1) + F(k - 2)

\* k!
RECURSIVE Fact(_)
Fact(k) == IF k = 0 THEN 1 ELSE k * Fact(k - 1)

\* the outcome of fibonacci(n) called on its own
FibonacciAlone(n) ==
    IF n < 0 THEN Raise("ValueError", "n must be non-negative") ELSE Ok("int", F(n))

\* the frame of the running invocation and the frame of the waiting one are
\* both finished calls of the same tool with the same arguments
SameCallFinished ==
    /\ other.kind \in {"invocation", "server"}
    /\ pc = "done"
    /\ other.pc = "done"
    /\ op = other.op
    /\ args = other.args

\* ctx.info raised in the running invocation
NotificationFailed(r) == r.kind = "error" /\ r.type = "NotificationError"

\* a finished invocation whose notification (if it has one) went through has
\* the outcome of the call made on its own, whatever the other invocation did
NoInterference ==
    /\ (Done("add") /\ ~NotificationFailed(result)) =>
           result = Ok("float", RatAdd(args[1], args[2]))
    /\ Done("fibonacci") => result = FibonacciAlone(args[1])

(***************************************************************************)
(* C1.  divide(a, 0) is a Domain Error for every a and never a value; for  *)
(* every b # 0, divide(a, b) returns the quotient: the float q with        *)
(* q * b = a.                                                              *)
(***************************************************************************)
C1_DivideGuardsZero ==
    Done("divide") =>
        LET a == args[1]
            b == args[2]
        IN  IF b[1] = 0
            THEN IsDomainError(result)
            ELSE /\ result.kind = "ok"
                 /\ result.type = "float"
                 /\ RatMul(result.val, b) = a

C1_Witness ==
    /\ Done("divide")
    /\ args[1][1] # 0
    /\ args[2][1] = 0
    /\ IsDomainError(result)

(***************************************************************************)
(* C2.  Every outcome is an error or a value of the tool's declared return *)
(* type; power and nth_root never return a complex number as a success.    *)
(* The code breaks it: a negative base with a fractional exponent makes    *)
(* ** return a complex number, which both tools return as their result.    *)
(***************************************************************************)
C2_ResultHasDeclaredType ==
    (pc = "done" /\ result.kind = "ok") => result.type = DeclaredType(op)

(***************************************************************************)
(* C3.  nth_root of a negative number: an even degree is a Domain Error,   *)
(* an odd degree n > 0 returns the negative real r with r^n = number       *)
(* (nth_root(-8, 3) = -2).  The code breaks the odd case: number ** (1/n)  *)
(* is the principal complex root for every odd n >= 3.                     *)
(***************************************************************************)
C3_OddRootOfNegativeIsReal ==
    (Done("nth_root") /\ args[1][1] < 0 /\ args[2] # 0) =>
        LET number == args[1]
            n == args[2]
        IN  IF n % 2 = 0 THEN IsDomainError(result)
            ELSE n > 0 =>
                   /\ result.kind = "ok"
                   /\ result.type = "float"
                   /\ result.val.exact
                   /\ result.val.rat[1] < 0
                   /\ result.val.rat[2] = 1
                   /\ IPow(result.val.rat[1], n) = number[1]

(***************************************************************************)
(* C4.  In the logging revision add returns a + b whether the notification *)
(* (await ctx.info) succeeds or fails.  The code breaks it: nothing        *)
(* catches an exception raised by ctx.info, so it fails the invocation.    *)
(***************************************************************************)
C4_AddReturnsSumDespiteNotification ==
    Done("add") =>
        /\ result.kind = "ok"
        /\ result.type = "float"
        /\ result.val = RatAdd(args[1], args[2])

(***************************************************************************)
(* C5.  solve_quadratic(a, b, c) is a Domain Error exactly when a = 0.     *)
(* Otherwise, with disc = b^2 - 4ac:                                       *)
(*   disc >= 0: two floats x1, x2, both roots of the equation, with        *)
(*     x1 + x2 = -b/a and (x1 - x2) * a = +sqrt(disc), that is             *)
(*     x1 = (-b + sqrt(disc))/2a first and x2 = (-b - sqrt(disc))/2a       *)
(*     second, unsorted;                                                   *)
(*   disc < 0: two complex numbers with real part -b/2a and imaginary      *)
(*     parts im and -im, where im * 2a = +sqrt(-disc).                     *)
(* solve_quadratic(1, -3, 2) = (2.0, 1.0); solve_quadratic(1, 0, 1) =      *)
(* (0+1i, 0-1i).                                                           *)
(***************************************************************************)
C5_SolveQuadratic ==
    Done("solve_quadratic") =>
        LET a == args[1]
            b == args[2]
            c == args[3]
            disc == RatSub(RatMul(b, b), RatMul(<<4, 1>>, RatMul(a, c)))
            two_a == RatMul(<<2, 1>>, a)
        IN  IF a[1] = 0 THEN IsDomainError(result)
            ELSE
            /\ result.kind = "ok"
            /\ result.type = "tuple"
            /\ Len(result.val) = 2
            /\ LET x1 == result.val[1]
                   x2 == result.val[2]
               IN  IF disc[1] >= 0
                   THEN /\ x1.t = "float" /\ x2.t = "float"
                        /\ SurdIsZero(QuadAt(a, b, c, x1.re))
                        /\ SurdIsZero(QuadAt(a, b, c, x2.re))
                        /\ SurdAdd(x1.re, x2.re) = SurdOfRat(RatDiv(RatNeg(b), a))
                        /\ IsSqrtOf(SurdMulRat(SurdSub(x1.re, x2.re), a), disc)
                   ELSE /\ x1.t = "complex" /\ x2.t = "complex"
                        /\ x1.re = SurdOfRat(RatDiv(RatNeg(b), two_a))
                        /\ x2.re = x1.re
                        /\ x2.im = SurdNeg(x1.im)
                        /\ ~SurdIsZero(x1.im)
                        /\ IsSqrtOf(SurdMulRat(x1.im, two_a), RatNeg(disc))
            /\ (<<a, b, c>> = <<<<1, 1>>, <<-3, 1>>, <<2, 1>>>> =>
                    result.val = <<FloatElem(Surd(2, 0, 1, 1)), FloatElem(One)>>)
            /\ (<<a, b, c>> = <<<<1, 1>>, <<0, 1>>, <<1, 1>>>> =>
                    result.val = <<complex(Zero, One), complex(Zero, SurdNeg(One))>>)

\* the larger root comes first: the pair is not sorted
C5_Witness ==
    /\ Done("solve_quadratic")
    /\ args = <<<<1, 1>>, <<-3, 1>>, <<2, 1>>>>
    /\ result.kind = "ok"
    /\ result.val[1].re = Surd(2, 0, 1, 1)
    /\ result.val[2].re = One

(***************************************************************************)
(* C6.  As claimed: mean, median, mode, standard_deviation and variance    *)
(* yield a Domain Error on the empty list and a value on every non-empty   *)
(* list, a list of one element included.                                   *)
(***************************************************************************)
C6_NonEmptyIsTheOnlyConstraint ==
    (pc = "done" /\ op \in StatTools) =>
        IF args[1] = <<>> THEN IsDomainError(result)
        ELSE result.kind = "ok"

(***************************************************************************)
(* C6, amended.  Each of the five tools yields the Domain Error "List      *)
(* cannot be empty" on the empty list.  mean, median, mode and the         *)
(* population (sample = False) standard deviation and variance return a    *)
(* float for every non-empty list.  The sample (sample = True) standard    *)
(* deviation and variance need two elements: on a list of exactly one      *)
(* element they end in the statistics module's StatisticsError, on longer  *)
(* lists they return a float.  mean([1, 2, 3]) = 2.                        *)
(***************************************************************************)
C6_SampleStatisticsNeedTwo ==
    (pc = "done" /\ op \in StatTools) =>
        LET numbers == args[1]
        IN  /\ IF numbers = <<>>
               THEN IsDomainError(result) /\ result.val = "List cannot be empty"
               ELSE IF IsSample /\ Len(numbers) = 1
               THEN result.kind = "error" /\ result.type = "StatisticsError"
               ELSE result.kind = "ok" /\ result.type = "float"
            /\ (op = "mean" /\ numbers = <<<<1, 1>>, <<2, 1>>, <<3, 1>>>> =>
                    result.val = <<2, 1>>)

C6_Witness ==
    /\ Done("standard_deviation")
    /\ Len(args[1]) = 1
    /\ args[2]
    /\ result.kind = "error"
    /\ result.type = "StatisticsError"

(***************************************************************************)
(* C7.  is_prime(n) returns True exactly when n is prime: False for every  *)
(* n < 2, True for 2, False for the other even n, and for odd n >= 3 the   *)
(* trial division by 3, 5, ... up to the integer square root finds a       *)
(* divisor exactly when n is composite (9 and 25 are composite).           *)
(***************************************************************************)
C7_IsPrimeExact ==
    Done("is_prime") =>
        /\ result.kind = "ok"
        /\ result.type = "bool"
        /\ result.val = IsPrimeNumber(args[1])
        /\ (args[1] < 2 => result.val = FALSE /\ steps = 0)

\* 25 = 5 * 5: the divisor is the last odd number of the range
C7_Witness ==
    /\ Done("is_prime")
    /\ args[1] = 25
    /\ locals.i = 5
    /\ result = Ok("bool", FALSE)

\* the value prime_factors returns
C8_FactorsCorrect ==
    Done("prime_factors") =>
        LET n == args[1]
        IN  /\ result.kind = "ok"
            /\ result.type = "list"
            /\ IF n <= 1 THEN result.val = <<>>
               ELSE /\ NonDecreasing(result.val)
                    /\ \A i \in 1..Len(result.val) : IsPrimeNumber(result.val[i])
                    /\ Product(result.val) = n
            /\ (n = 360 => result.val = <<2, 2, 2, 3, 3, 5>>)

(***************************************************************************)
(* C8.  prime_factors(n) terminates; for n >= 2 it returns the primes      *)
(* whose product is n, in non-decreasing order (prime_factors(360) =       *)
(* [2, 2, 2, 3, 3, 5]); for n <= 1 it returns the empty list.              *)
(***************************************************************************)
C8_PrimeFactors ==
    /\ [] C8_FactorsCorrect
    /\ (pc \in {"pf_outer", "pf_inner"}) ~> Done("prime_factors")

C8_Witness ==
    /\ Done("prime_factors")
    /\ args[1] = 360
    /\ result.val = <<2, 2, 2, 3, 3, 5>>

(***************************************************************************)
(* C9.  As claimed: fibonacci(n) is a Domain Error for n < 0; for every    *)
(* n >= 0 it takes at most n - 1 loop steps and returns F(n), where        *)
(* F(0) = 0, F(1) = 1, F(k) = F(k-1) + F(k-2).                             *)
(***************************************************************************)
C9_AtMostNMinusOneSteps ==
    Done("fibonacci") =>
        LET n == args[1]
        IN  IF n < 0 THEN IsDomainError(result)
            ELSE /\ result = Ok("int", F(n))
                 /\ steps <= n - 1

(***************************************************************************)
(* C9, amended.  fibonacci(n) is a Domain Error for n < 0; for every       *)
(* n >= 0 it returns F(n) after at most max(n - 1, 0) loop steps: no step  *)
(* for n = 0 and n = 1, exactly n - 1 steps for n >= 2                     *)
(* (fibonacci(10) = 55).                                                   *)
(***************************************************************************)
C9_FibonacciIterative ==
    /\ (op = "fibonacci" /\ pc = "fib_loop") => steps <= Max2(args[1] - 1, 0)
    /\ Done("fibonacci") =>
         LET n == args[1]
         IN  IF n < 0 THEN IsDomainError(result) /\ steps = 0
             ELSE /\ result = Ok("int", F(n))
                  /\ steps = Max2(n - 1, 0)
                  /\ (n = 10 => result.val = 55)

C9_Witness ==
    /\ Done("fibonacci")
    /\ args[1] = 10
    /\ steps = 9
    /\ result = Ok("int", 55)

(***************************************************************************)
(* C10.  combinations(n, r) and permutations(n, r) are a Domain Error      *)
(* exactly when 0 <= r <= n does not hold; otherwise they return           *)
(* n!/(r!(n-r)!) and n!/(n-r)! (combinations(5, 2) = 10,                   *)
(* permutations(5, 2) = 20).                                               *)
(***************************************************************************)
C10_CombinationsPermutations ==
    (pc = "done" /\ op \in {"combinations", "permutations"}) =>
        LET n == args[1]
            r == args[2]
        IN  IF ~(0 <= r /\ r <= n) THEN IsDomainError(result)
            ELSE /\ result.kind = "ok"
                 /\ result.type = "int"
                 /\ IF op = "combinations"
                    THEN result.val * Fact(r) * Fact(n - r) = Fact(n)
                    ELSE result.val * Fact(n - r) = Fact(n)
                 /\ (<<n, r>> = <<5, 2>> =>
                        result.val = IF op = "combinations" THEN 10 ELSE 20)

C10_Witness ==
    /\ Done("combinations")
    /\ args = <<5, 2>>
    /\ result = Ok("int", 10)

(***************************************************************************)
(* C11.  lcm(a, b) returns 0 when a or b is 0 (also for a = b = 0, without *)
(* a division fault); otherwise it returns |a*b| / gcd(a, b), a positive   *)
(* integer that both a and b divide and the smallest such, for negative    *)
(* inputs too (lcm(4, 6) = 12).                                            *)
(***************************************************************************)
C11_Lcm ==
    Done("lcm") =>
        LET a == args[1]
            b == args[2]
            v == result.val
        IN  /\ result.kind = "ok"
            /\ result.type = "int"
            /\ IF a = 0 \/ b = 0 THEN v = 0
               ELSE /\ v > 0
                    /\ v * Gcd(a, b) = Abs(a * b)
                    /\ IsCommonMultiple(v, a, b)
                    /\ \A m \in 1..(v - 1) : ~IsCommonMultiple(m, a, b)
            /\ (<<a, b>> = <<4, 6>> => v = 12)

C11_Witness ==
    /\ Done("lcm")
    /\ args = <<-4, 6>>
    /\ result = Ok("int", 12)

(***************************************************************************)
(* C12.  Invocations are independent: whatever the interleaving of two     *)
(* concurrently running invocations, each returns the outcome it returns   *)
(* when run alone, and two invocations of the same tool with the same      *)
(* arguments return identical results.                                     *)
(***************************************************************************)
C12_InvocationsIndependent ==
    /\ NoInterference
    /\ SameCallFinished => result = other.result

C14_SquareRoot ==
    Done("square_root") =>
        LET number == args[1]
        IN  IF RatLess(number, <<0, 1>>)
            THEN /\ IsDomainError(result)
                 /\ result.val = "Cannot calculate square root of negative number"
            ELSE /\ result.kind = "ok"
                 /\ result.type = "float"
                 /\ IsSqrtOf(result.val, number)

C14_Witness ==
    /\ Done("square_root")
    /\ args = << <<-3, 2>> >>
    /\ IsDomainError(result)

====
